---- MODULE Spec2Model ----
(***************************************************************************)
(* Model of the key event log storage engine of keri.db.dbing:             *)
(* class Databaser (generic keyspace layer over LMDB) and class Logger     *)
(* (schema layer, ten named sub-stores).                                   *)
(*                                                                         *)
(* Byte strings are sequences of byte codes (ASCII), so that the           *)
(* lexicographic duplicate order of the backing store and the ordinal      *)
(* prefix b'%06x.' are computed, not assumed.                              *)
(*                                                                         *)
(* A sub-store is a function from keys to the list of values stored at the *)
(* key, kept in the order the backing store iterates them.  A key is       *)
(* present iff its list is not empty.                                      *)
(*                                                                         *)
(* The calls of one caller are atomic actions.  Where callers interleave   *)
(* (SpecConc) a call is split at its transaction boundaries: the read of   *)
(* dups, the begin of the write transaction, each put, the commit.         *)
(*                                                                         *)
(* The configuration file of keri.app.configing (class Configer) is the    *)
(* variable cf; SpecConf is its specification.                             *)
(***************************************************************************)
EXTENDS Integers, Sequences, FiniteSets, TLC

\* ------------------------------------------------------------------ bounds

\* Longest list of values handed to putVals / putIoVals.
MaxVals == 2

\* Most entries the model lets an insertion-ordered sub-store grow to (guard
\* of its inserting actions; the code has no such limit).
MaxDups == 5

\* Most entries the model lets the whole environment hold when several
\* sub-stores run in one specification (SpecEnv, SpecSchema, SpecTear) and
\* when callers interleave (SpecConc, entries of calls in flight included).
MaxEnv == 2

\* Radix and minimum digit count of the ordinal prefix.  The source formats
\* the ordinal with '%06x' (radix 16, at least 6 digits, 16^6 ordinals of
\* full width); the model keeps the formatting rule and scales both numbers
\* down so that the first ordinal wider than the pad is reachable.
OrdBase == 2
OrdWidth == 2

\* Minimum digit count of the sequence number in a key built by snKey.  The
\* source formats it with '%032x' (32 digits, numbers below 16^32 = 2^128 of
\* full width); the model keeps radix 16 and scales the width down.
SnWidth == 2

\* ----------------------------------------------------------------- domains

\* Keys handed to the keyspace layer (opaque bytes built by dgKey / snKey).
Keys == {"k1", "k2"}

\* Values: b'a', b'ab', b'b' (byte codes).
Vals == {<<97>>, <<97, 98>>, <<98>>}

\* Python None, the absent marker; it is no byte string.
None == <<-1>>

\* What a call returns when it raised lmdb.Error; it is no byte string.
LmdbError == <<-2>>

\* Callers whose calls may interleave.
Procs == {1, 2}

\* The record of a caller with no call in flight.  A call in flight holds
\* its name, sub-store, key and list of values (arg), the set dups it read
\* before its write transaction, and inside the transaction the values of
\* the key as the transaction sees them (s), the ordinal counter cnt, the
\* values the loop has still to handle (todo) and the result so far.
Idle ==
    [pc |-> "idle", name |-> "", db |-> "", key |-> "", arg |-> <<>>,
     dups |-> {}, s |-> <<>>, cnt |-> 0, todo |-> <<>>, result |-> FALSE]

\* Sub-stores opened without dupsort (one value per key).
ValSubs == {"evts.", "dtss.", "ures."}

\* Sub-stores opened with dupsort=True and used in lexicographic mode.
DupSubs == {"sigs.", "rcts."}

\* Sub-stores opened with dupsort=True and used in insertion-ordered mode.
IoSubs == {"kels.", "pses.", "ooes.", "dels.", "ldes."}

Subs == ValSubs \cup DupSubs \cup IoSubs

\* Lists of values a caller may pass: every list over Vals up to MaxVals long,
\* lists that repeat a value included.
ValLists == UNION {[1..n -> Vals] : n \in 0..MaxVals}

VARIABLES
    dbs,        \* dbs[db][key]: values stored at key of sub-store db, in store order
    ret,        \* value returned by the last operation
    op,         \* the last operation called: [name, db, key, arg, pre,
                \* raised]; arg is its value or list of values (None without
                \* one), pre the values stored at the key when it was called,
                \* raised tells whether it raised instead of returning
    accepted,   \* accepted[db][key]: the payloads putIoVals / addIoVal handed
                \* to txn.put, in that order, since the key was last deleted
    meth,       \* name of the schema-layer method called last (the name of
                \* the keyspace-layer method when that was called directly)
    env,        \* the environment: [open, dir, torn, temp, path, scope];
                \* open is FALSE once env.close() has run, dir tells whether
                \* the directory self.path exists, torn whether clearDirPath
                \* was called, temp is the constructor's argument, path names
                \* the directory self.path resolved to ("temp", "pref", "alt";
                \* "none" before it is set), scope is the phase of the
                \* openDatabaser with-block that holds the instance
    calls,      \* calls[p]: the call caller p has in flight when callers
                \* interleave (Idle when it has none)
    cf          \* the configuration file of a Configer: [opened, ext, human,
                \* temp, ser]; opened tells whether self.file is an open
                \* file, ext is the extension of self.path, human and temp
                \* are the attributes of those names, ser is what the file
                \* holds (<<>> when it is empty or does not exist)

vars == <<dbs, ret, op, accepted, meth, env, calls, cf>>

Call(name, db, key, arg, pre) ==
    [name |-> name, db |-> db, key |-> key, arg |-> arg, pre |-> pre,
     raised |-> FALSE]

\* ------------------------------------------------- backing store primitives

\* Byte-lexicographic order of the backing store (memcmp, shorter first).
BytesLt(a, b) ==
    LET n == IF Len(a) < Len(b) THEN Len(a) ELSE Len(b)
        diff == {i \in 1..n : a[i] # b[i]}
    IN  IF diff = {}
        THEN Len(a) < Len(b)
        ELSE LET d == CHOOSE i \in diff : \A j \in diff : i <= j
             IN  a[d] < b[d]

Range(s) == {s[i] : i \in 1..Len(s)}

\* Variant of DupInsert that keeps arrival order instead of byte order.
DupInsertAtEnd(s, val) == IF val \in Range(s) THEN s ELSE Append(s, val)

\* txn.put(key, val, dupdata=True) on a dupsort sub-store: the value goes to
\* its place in byte order; a (key, value) pair already stored is not stored
\* again.
DupInsert(s, val) ==
    IF val \in Range(s)
    THEN s
    ELSE LET p == Cardinality({i \in 1..Len(s) : BytesLt(s[i], val)})
         IN  SubSeq(s, 1, p) \o <<val>> \o SubSeq(s, p + 1, Len(s))

\* Variant of TxnDelete that removes one duplicate of the key, not all.
TxnDeleteOneDup(s) ==
    IF s = <<>> THEN [s |-> <<>>, ret |-> FALSE]
                ELSE [s |-> Tail(s), ret |-> TRUE]

\* txn.delete(key): removes the key with all its values; True iff it existed.
TxnDelete(s) == [s |-> <<>>, ret |-> s # <<>>]

\* ------------------------------------------------ single-value operations

\* Variant of PutValTxn without overwrite=False.
PutValOverwriting(s, val) == [s |-> <<val>>, ret |-> TRUE]

\* putVal: txn.put(key, val, overwrite=False)
PutValTxn(s, val) ==
    IF s # <<>> THEN [s |-> s, ret |-> FALSE]
                ELSE [s |-> <<val>>, ret |-> TRUE]

\* Variant of SetValTxn that passes overwrite=False.
SetValNotOverwriting(s, val) ==
    IF s # <<>> THEN [s |-> s, ret |-> FALSE]
                ELSE [s |-> <<val>>, ret |-> TRUE]

\* setVal: txn.put(key, val)
SetValTxn(s, val) == [s |-> <<val>>, ret |-> TRUE]

\* getVal: txn.get(key)
GetValOf(s) == IF s = <<>> THEN None ELSE s[1]

\* delVal: txn.delete(key)
DelValTxn(s) == TxnDelete(s)

\* No Configer has been made: no file.
NoFile ==
    [opened |-> FALSE, ext |-> "", human |-> FALSE, temp |-> FALSE, ser |-> <<>>]

Init ==
    /\ dbs = [d \in Subs |-> [k \in Keys |-> <<>>]]
    /\ ret = None
    /\ op = Call("init", "", "", None, <<>>)
    /\ accepted = [d \in IoSubs |-> [k \in Keys |-> <<>>]]
    /\ meth = "init"
    /\ env = [open |-> TRUE, dir |-> TRUE, torn |-> FALSE, temp |-> TRUE,
              path |-> "temp", scope |-> "none"]
    /\ calls = [p \in Procs |-> Idle]
    /\ cf = NoFile

\* Store r.s at key of db and return r.ret.
Commit(name, db, key, arg, r) ==
    /\ dbs' = [dbs EXCEPT ![db][key] = r.s]
    /\ ret' = r.ret
    /\ op' = Call(name, db, key, arg, dbs[db][key])
    /\ UNCHANGED <<env, calls, cf>>

\* Variant of Read that takes what it returns out of the store, as a
\* txn.pop(key) in a write transaction would.
ReadTaking(name, db, key, v) ==
    /\ dbs' = [dbs EXCEPT ![db][key] = <<>>]
    /\ ret' = v
    /\ op' = Call(name, db, key, None, dbs[db][key])
    /\ UNCHANGED <<accepted, env, calls, cf>>

\* A read: the stores are left alone and v is returned.
Read(name, db, key, v) ==
    /\ ret' = v
    /\ op' = Call(name, db, key, None, dbs[db][key])
    /\ UNCHANGED <<dbs, accepted, env, calls, cf>>

\* self.env.begin(...) on a closed environment raises lmdb.Error: nothing is
\* read and nothing is stored.
Raise(name, db, key, arg) ==
    /\ ret' = LmdbError
    /\ op' = [Call(name, db, key, arg, dbs[db][key]) EXCEPT !.raised = TRUE]
    /\ UNCHANGED <<dbs, accepted, env, calls, cf>>

PutVal(db, key, val) ==
    IF env.open
    THEN /\ Commit("putVal", db, key, val, PutValTxn(dbs[db][key], val))
         /\ UNCHANGED accepted
    ELSE Raise("putVal", db, key, val)

SetVal(db, key, val) ==
    IF env.open
    THEN /\ Commit("setVal", db, key, val, SetValTxn(dbs[db][key], val))
         /\ UNCHANGED accepted
    ELSE Raise("setVal", db, key, val)

GetVal(db, key) ==
    IF env.open
    THEN /\ Read("getVal", db, key, GetValOf(dbs[db][key]))
    ELSE Raise("getVal", db, key, None)

DelVal(db, key) ==
    IF env.open
    THEN /\ Commit("delVal", db, key, None, DelValTxn(dbs[db][key]))
         /\ UNCHANGED accepted
    ELSE Raise("delVal", db, key, None)

\* Schema layer, single-value sub-stores.
PutEvt(key, val) ==
    PutVal("evts.", key, val) /\ meth' = "putEvt"
SetEvt(key, val) ==
    SetVal("evts.", key, val) /\ meth' = "setEvt"
GetEvt(key) ==
    GetVal("evts.", key) /\ meth' = "getEvt"
DelEvt(key) ==
    DelVal("evts.", key) /\ meth' = "delEvt"

PutDts(key, val) ==
    PutVal("dtss.", key, val) /\ meth' = "putDts"
SetDts(key, val) ==
    SetVal("dtss.", key, val) /\ meth' = "setDts"
GetDts(key) ==
    GetVal("dtss.", key) /\ meth' = "getDts"
DelDts(key) ==
    DelVal("dtss.", key) /\ meth' = "delDts"

PutUre(key, val) ==
    PutVal("ures.", key, val) /\ meth' = "putUre"
SetUre(key, val) ==
    SetVal("ures.", key, val) /\ meth' = "setUre"
GetUre(key) ==
    GetVal("ures.", key) /\ meth' = "getUre"
DelUre(key) ==
    DelVal("ures.", key) /\ meth' = "delUre"

\* Values written to the single-value sub-stores: b'a', b'b'.
EvtVals == {<<97>>, <<98>>}

NextVal ==
    \E key \in Keys :
        \/ \E val \in EvtVals : PutEvt(key, val)
        \/ \E val \in EvtVals : SetEvt(key, val)
        \/ GetEvt(key)
        \/ DelEvt(key)
        \/ \E val \in EvtVals : PutDts(key, val)
        \/ \E val \in EvtVals : SetDts(key, val)
        \/ GetDts(key)
        \/ DelDts(key)
        \/ \E val \in EvtVals : PutUre(key, val)
        \/ \E val \in EvtVals : SetUre(key, val)
        \/ GetUre(key)
        \/ DelUre(key)

SpecVal == Init /\ [][NextVal]_vars

\* ------------------------------------- lexicographic multi-value operations

\* Variant of PutValsTxn whose result tells whether every value was new, as
\* a put with the overwrite flag cleared would.
RECURSIVE PutValsReportNew(_, _)
PutValsReportNew(s, vals) ==
    IF vals = <<>>
    THEN [s |-> s, ret |-> TRUE]
    ELSE LET r == PutValsReportNew(DupInsert(s, Head(vals)), Tail(vals))
         IN  [s |-> r.s, ret |-> Head(vals) \notin Range(s) /\ r.ret]

\* putVals: result = result and txn.put(key, val, dupdata=True) for each val;
\* the put of a dupsort sub-store returns True also for a pair already stored.
RECURSIVE PutValsTxn(_, _)
PutValsTxn(s, vals) ==
    IF vals = <<>>
    THEN [s |-> s, ret |-> TRUE]
    ELSE PutValsTxn(DupInsert(s, Head(vals)), Tail(vals))

\* getVals: cursor.set_key(key), then every duplicate in store order.
GetValsOf(s) == s

\* Variant of AddValTxn without the inclusion test: the result of the put.
AddValNoTest(s, dups, val) == [s |-> DupInsert(s, val), ret |-> TRUE]

\* addVal: the inclusion test against getVals, then one put.
AddValTxn(s, dups, val) ==
    IF val \notin dups
    THEN [s |-> DupInsert(s, val), ret |-> TRUE]
    ELSE [s |-> s, ret |-> FALSE]

\* cntVals: cursor.count() when set_key finds the key, else 0.
CntValsOf(s) == Len(s)

\* delVals: txn.delete(key)
DelValsTxn(s) == TxnDelete(s)

PutVals(db, key, vals) ==
    IF env.open
    THEN /\ Commit("putVals", db, key, vals, PutValsTxn(dbs[db][key], vals))
         /\ UNCHANGED accepted
    ELSE Raise("putVals", db, key, vals)

AddVal(db, key, val) ==
    IF env.open
    THEN /\ Commit("addVal", db, key, val,
                   AddValTxn(dbs[db][key], Range(GetValsOf(dbs[db][key])), val))
         /\ UNCHANGED accepted
    ELSE Raise("addVal", db, key, val)

GetVals(db, key) ==
    IF env.open
    THEN /\ Read("getVals", db, key, GetValsOf(dbs[db][key]))
    ELSE Raise("getVals", db, key, None)

CntVals(db, key) ==
    IF env.open
    THEN /\ Read("cntVals", db, key, CntValsOf(dbs[db][key]))
    ELSE Raise("cntVals", db, key, None)

DelVals(db, key) ==
    IF env.open
    THEN /\ Commit("delVals", db, key, None, DelValsTxn(dbs[db][key]))
         /\ UNCHANGED accepted
    ELSE Raise("delVals", db, key, None)

\* Schema layer, signatures.
PutSigs(key, vals) ==
    PutVals("sigs.", key, vals) /\ meth' = "putSigs"
AddSig(key, val) ==
    AddVal("sigs.", key, val) /\ meth' = "addSig"
GetSigs(key) ==
    GetVals("sigs.", key) /\ meth' = "getSigs"
CntSigs(key) ==
    CntVals("sigs.", key) /\ meth' = "cntSigs"
DelSigs(key) ==
    DelVals("sigs.", key) /\ meth' = "delSigs"

NextVals ==
    \E key \in Keys :
        \/ \E vals \in ValLists : PutSigs(key, vals)
        \/ \E val \in Vals : AddSig(key, val)
        \/ GetSigs(key)
        \/ CntSigs(key)
        \/ DelSigs(key)

SpecVals == Init /\ [][NextVals]_vars

\* --------------------------------- insertion-ordered multi-value operations

\* One hexadecimal digit as its byte: '0'..'9' are 48..57, 'a'..'f' 97..102.
HexDigit(d) == IF d < 10 THEN 48 + d ELSE 87 + d

\* The digits of n, most significant first, without padding.
RECURSIVE HexDigits(_)
HexDigits(n) ==
    IF n < OrdBase
    THEN <<HexDigit(n)>>
    ELSE HexDigits(n \div OrdBase) \o <<HexDigit(n % OrdBase)>>

\* '%06x': zero padding up to the minimum width; a longer number is printed
\* in full.
ZeroPad(digits, width) ==
    IF Len(digits) >= width
    THEN digits
    ELSE [i \in 1..(width - Len(digits)) |-> 48] \o digits

\* b'%06x.' % (cnt): the ordering prefix of the entry numbered cnt.
OrdPrefix(cnt) == ZeroPad(HexDigits(cnt), OrdWidth) \o <<46>>

\* Number of leading bytes the getters slice off (val[7:] for '%06x.').
StripLen == OrdWidth + 1

\* val[7:]
Strip(e) == SubSeq(e, StripLen + 1, Len(e))

\* getIoVals: every duplicate in store order, prefix sliced off.
GetIoValsOf(s) == [i \in 1..Len(s) |-> Strip(s[i])]

\* getIoValsLast: cursor.last_dup(), prefix sliced off; None without the key.
GetIoValsLastOf(s) == IF s = <<>> THEN None ELSE Strip(s[Len(s)])

\* Variant of CntIoValsOf that tells whether set_key found the key.
CntIoValsFound(s) == IF s = <<>> THEN 0 ELSE 1

\* cntIoVals: cursor.count() when set_key finds the key, else 0.
CntIoValsOf(s) == Len(s)

\* Variant of PutIoLoop that numbers every entry of one call with the count
\* read at its start.
RECURSIVE PutIoLoopSameCnt(_, _, _, _, _)
PutIoLoopSameCnt(s, dups, vals, cnt, result) ==
    IF vals = <<>>
    THEN [s |-> s, ret |-> result]
    ELSE IF Head(vals) \notin dups
         THEN PutIoLoopSameCnt(DupInsert(s, OrdPrefix(cnt) \o Head(vals)),
                               dups, Tail(vals), cnt, TRUE)
         ELSE PutIoLoopSameCnt(s, dups, Tail(vals), cnt, result)

\* The loop of putIoVals: dups is the set read before the write transaction
\* and is not extended while the loop runs; cnt counts the puts.
RECURSIVE PutIoLoop(_, _, _, _, _)
PutIoLoop(s, dups, vals, cnt, result) ==
    IF vals = <<>>
    THEN [s |-> s, ret |-> result]
    ELSE IF Head(vals) \notin dups
         THEN PutIoLoop(DupInsert(s, OrdPrefix(cnt) \o Head(vals)),
                        dups, Tail(vals), cnt + 1, TRUE)
         ELSE PutIoLoop(s, dups, Tail(vals), cnt, result)

\* Variant of PutIoValsTxn whose result is that of the last value only.
PutIoValsLastResult(s, dups, vals) ==
    [s |-> PutIoLoop(s, dups, vals, Len(s), FALSE).s,
     ret |-> vals # <<>> /\ vals[Len(vals)] \notin dups]

\* putIoVals: cnt = cursor.count() (0 without the key), then the loop.
PutIoValsTxn(s, dups, vals) == PutIoLoop(s, dups, vals, Len(s), FALSE)

\* Variant of AddIoValTxn that numbers the entry by the size of dups, the
\* set read before the write transaction.
AddIoValStaleCnt(s, dups, val) ==
    IF val \notin dups
    THEN [s |-> DupInsert(s, OrdPrefix(Cardinality(dups)) \o val), ret |-> TRUE]
    ELSE [s |-> s, ret |-> FALSE]

\* addIoVal: cnt = cursor.count(); one put when val is not in dups.
AddIoValTxn(s, dups, val) ==
    IF val \notin dups
    THEN [s |-> DupInsert(s, OrdPrefix(Len(s)) \o val), ret |-> TRUE]
    ELSE [s |-> s, ret |-> FALSE]

\* delIoVals: txn.delete(key)
DelIoValsTxn(s) == TxnDelete(s)

\* The payloads of vals the call hands to txn.put, in call order.
Puts(dups, vals) == SelectSeq(vals, LAMBDA v : v \notin dups)


\* Number of entries stored in sub-store db, over all keys.
SubSize(db) ==
    Cardinality(UNION {{<<k, i>> : i \in 1..Len(dbs[db][k])} : k \in Keys})

PutIoVals(db, key, vals) ==
    IF env.open
    THEN LET s == dbs[db][key]
             dups == Range(GetIoValsOf(s))
         IN  /\ SubSize(db) + Len(vals) <= MaxDups
             /\ Commit("putIoVals", db, key, vals, PutIoValsTxn(s, dups, vals))
             /\ accepted' = [accepted EXCEPT ![db][key] = @ \o Puts(dups, vals)]
    ELSE Raise("putIoVals", db, key, vals)

AddIoVal(db, key, val) ==
    IF env.open
    THEN LET s == dbs[db][key]
             dups == Range(GetIoValsOf(s))
         IN  /\ SubSize(db) + 1 <= MaxDups
             /\ Commit("addIoVal", db, key, val, AddIoValTxn(s, dups, val))
             /\ accepted' = [accepted EXCEPT ![db][key] = @ \o Puts(dups, <<val>>)]
    ELSE Raise("addIoVal", db, key, val)

GetIoVals(db, key) ==
    IF env.open
    THEN /\ Read("getIoVals", db, key, GetIoValsOf(dbs[db][key]))
    ELSE Raise("getIoVals", db, key, None)

GetIoValsLast(db, key) ==
    IF env.open
    THEN /\ Read("getIoValsLast", db, key, GetIoValsLastOf(dbs[db][key]))
    ELSE Raise("getIoValsLast", db, key, None)

CntIoVals(db, key) ==
    IF env.open
    THEN /\ Read("cntIoVals", db, key, CntIoValsOf(dbs[db][key]))
    ELSE Raise("cntIoVals", db, key, None)

DelIoVals(db, key) ==
    IF env.open
    THEN /\ Commit("delIoVals", db, key, None, DelIoValsTxn(dbs[db][key]))
         /\ accepted' = [accepted EXCEPT ![db][key] = <<>>]
    ELSE Raise("delIoVals", db, key, None)

\* Schema layer, key event log.  It has no single-value add: addIoVal is
\* called on the sub-store itself.
PutKes(key, vals) ==
    PutIoVals("kels.", key, vals) /\ meth' = "putKes"
GetKes(key) ==
    GetIoVals("kels.", key) /\ meth' = "getKes"
GetKesLast(key) ==
    GetIoValsLast("kels.", key) /\ meth' = "getKesLast"
CntKes(key) ==
    CntIoVals("kels.", key) /\ meth' = "cntKes"
DelKes(key) ==
    DelIoVals("kels.", key) /\ meth' = "delKes"

NextIo ==
    \E key \in Keys :
        \/ \E vals \in ValLists : PutKes(key, vals)
        \/ \E val \in Vals : AddIoVal("kels.", key, val) /\ meth' = "addIoVal"
        \/ GetKes(key)
        \/ GetKesLast(key)
        \/ CntKes(key)
        \/ DelKes(key)

SpecIo == Init /\ [][NextIo]_vars

\* Event digests written one at a time: b'a' .. b'e'.
Digs == {<<97>>, <<98>>, <<99>>, <<100>>, <<101>>}

\* The key event log written by addIoVal alone, one digest per call.
NextAddIo ==
    \E key \in Keys :
        \/ \E val \in Digs : AddIoVal("kels.", key, val) /\ meth' = "addIoVal"
        \/ GetKes(key)
        \/ GetKesLast(key)
        \/ CntKes(key)
        \/ DelKes(key)

SpecAddIo == Init /\ [][NextAddIo]_vars

\* ------------------------------------------ all three modes, one environment

\* Number of entries stored in the environment.
EnvSize ==
    Cardinality(UNION {{<<d, k, i>> : i \in 1..Len(dbs[d][k])} :
                           d \in Subs, k \in Keys})

\* One sub-store of each mode; the inserting calls are taken while the
\* environment has room for what they may store.
NextEnv ==
    \E key \in Keys :
        \/ \E val \in EvtVals : EnvSize < MaxEnv /\ PutEvt(key, val)
        \/ \E val \in EvtVals : EnvSize < MaxEnv /\ SetEvt(key, val)
        \/ GetEvt(key)
        \/ DelEvt(key)
        \/ \E vals \in ValLists : EnvSize + Len(vals) <= MaxEnv /\ PutSigs(key, vals)
        \/ \E val \in Vals : EnvSize < MaxEnv /\ AddSig(key, val)
        \/ GetSigs(key)
        \/ CntSigs(key)
        \/ DelSigs(key)
        \/ \E vals \in ValLists : EnvSize + Len(vals) <= MaxEnv /\ PutKes(key, vals)
        \/ \E val \in Vals : EnvSize < MaxEnv /\ AddIoVal("kels.", key, val) /\ meth' = "addIoVal"
        \/ GetKes(key)
        \/ GetKesLast(key)
        \/ CntKes(key)
        \/ DelKes(key)

SpecEnv == Init /\ [][NextEnv]_vars

\* -------------------------------------------------- the other sub-stores

\* Schema layer, receipt couplets.
PutRcts(key, vals) ==
    PutVals("rcts.", key, vals) /\ meth' = "putRcts"
AddRct(key, val) ==
    AddVal("rcts.", key, val) /\ meth' = "addRct"
GetRcts(key) ==
    GetVals("rcts.", key) /\ meth' = "getRcts"
CntRcts(key) ==
    CntVals("rcts.", key) /\ meth' = "cntRcts"
DelRcts(key) ==
    DelVals("rcts.", key) /\ meth' = "delRcts"

\* Schema layer, partially signed escrow.

\* Variant of DelPses that deletes from the out of order escrow.
DelPsesFromOoes(key) ==
    DelIoVals("ooes.", key) /\ meth' = "delPses"

DelPses(key) ==
    DelIoVals("pses.", key) /\ meth' = "delPses"
PutPses(key, vals) ==
    PutIoVals("pses.", key, vals) /\ meth' = "putPses"
GetPses(key) ==
    GetIoVals("pses.", key) /\ meth' = "getPses"
GetPsesLast(key) ==
    GetIoValsLast("pses.", key) /\ meth' = "getPsesLast"
CntPses(key) ==
    CntIoVals("pses.", key) /\ meth' = "cntPses"

\* Schema layer, out of order escrow.
PutOoes(key, vals) ==
    PutIoVals("ooes.", key, vals) /\ meth' = "putOoes"
GetOoes(key) ==
    GetIoVals("ooes.", key) /\ meth' = "getOoes"
GetOoesLast(key) ==
    GetIoValsLast("ooes.", key) /\ meth' = "getOoesLast"
CntOoes(key) ==
    CntIoVals("ooes.", key) /\ meth' = "cntOoes"
DelOoes(key) ==
    DelIoVals("ooes.", key) /\ meth' = "delOoes"

\* Schema layer, duplicitous event log.
PutDes(key, vals) ==
    PutIoVals("dels.", key, vals) /\ meth' = "putDes"
GetDes(key) ==
    GetIoVals("dels.", key) /\ meth' = "getDes"
GetDesLast(key) ==
    GetIoValsLast("dels.", key) /\ meth' = "getDesLast"
CntDes(key) ==
    CntIoVals("dels.", key) /\ meth' = "cntDes"
DelDes(key) ==
    DelIoVals("dels.", key) /\ meth' = "delDes"

\* Schema layer, likely duplicitous escrow.
PutLdes(key, vals) ==
    PutIoVals("ldes.", key, vals) /\ meth' = "putLdes"
GetLdes(key) ==
    GetIoVals("ldes.", key) /\ meth' = "getLdes"
GetLdesLast(key) ==
    GetIoValsLast("ldes.", key) /\ meth' = "getLdesLast"
CntLdes(key) ==
    CntIoVals("ldes.", key) /\ meth' = "cntLdes"
DelLdes(key) ==
    DelIoVals("ldes.", key) /\ meth' = "delLdes"

\* The value and the lists the schema-layer calls are given when all ten
\* sub-stores run in one specification: b'a', [] and [b'a'].
SchVals == {<<97>>}
SchLists == {<<>>, <<<<97>>>>}

\* Every writing and deleting method of the schema layer, on all ten
\* sub-stores; the inserting calls are taken while the environment has room.
NextSchema ==
    \E key \in Keys :
        \/ \E val \in SchVals : EnvSize < MaxEnv /\ PutEvt(key, val)
        \/ \E val \in SchVals : EnvSize < MaxEnv /\ SetEvt(key, val)
        \/ DelEvt(key)
        \/ \E val \in SchVals : EnvSize < MaxEnv /\ PutDts(key, val)
        \/ \E val \in SchVals : EnvSize < MaxEnv /\ SetDts(key, val)
        \/ DelDts(key)
        \/ \E val \in SchVals : EnvSize < MaxEnv /\ PutUre(key, val)
        \/ \E val \in SchVals : EnvSize < MaxEnv /\ SetUre(key, val)
        \/ DelUre(key)
        \/ \E vals \in SchLists : EnvSize < MaxEnv /\ PutSigs(key, vals)
        \/ \E val \in SchVals : EnvSize < MaxEnv /\ AddSig(key, val)
        \/ DelSigs(key)
        \/ \E vals \in SchLists : EnvSize < MaxEnv /\ PutRcts(key, vals)
        \/ \E val \in SchVals : EnvSize < MaxEnv /\ AddRct(key, val)
        \/ DelRcts(key)
        \/ \E vals \in SchLists : EnvSize < MaxEnv /\ PutKes(key, vals)
        \/ DelKes(key)
        \/ \E vals \in SchLists : EnvSize < MaxEnv /\ PutPses(key, vals)
        \/ DelPses(key)
        \/ \E vals \in SchLists : EnvSize < MaxEnv /\ PutOoes(key, vals)
        \/ DelOoes(key)
        \/ \E vals \in SchLists : EnvSize < MaxEnv /\ PutDes(key, vals)
        \/ DelDes(key)
        \/ \E vals \in SchLists : EnvSize < MaxEnv /\ PutLdes(key, vals)
        \/ DelLdes(key)

SpecSchema == Init /\ [][NextSchema]_vars

\* -------------------------------------------------- interleaved callers

\* The key the interleaved callers share, and the values they pass: b'a',
\* b'b'.
ConcKeys == {"k1"}
ConcVals == EvtVals

\* Lists a caller passes while calls interleave: no value twice.
ConcLists ==
    {l \in UNION {[1..n -> ConcVals] : n \in 0..MaxVals} :
         \A i, j \in 1..Len(l) : i # j => l[i] # l[j]}

\* Number of values the call in flight of caller p may still store.
Reserve(p) == IF calls[p].pc \in {"read", "txn"} THEN Len(calls[p].arg) ELSE 0

\* Entries stored plus entries the calls in flight may still store.
Load ==
    EnvSize + Cardinality(UNION {{<<p, i>> : i \in 1..Reserve(p)} : p \in Procs})

\* The call is entered; the methods that test for inclusion read dups in a
\* read transaction of their own (getVals / getIoVals) before they write.
Enter(p, name, db, key, vals, dups) ==
    /\ env.open
    /\ calls[p].pc = "idle"
    /\ Load + Len(vals) <= MaxEnv
    /\ calls' = [calls EXCEPT ![p] =
                     [pc |-> "read", name |-> name, db |-> db, key |-> key,
                      arg |-> vals, dups |-> dups, s |-> <<>>, cnt |-> 0,
                      todo |-> vals, result |-> (name = "putVals")]]
    /\ UNCHANGED <<dbs, ret, op, accepted, meth, env, cf>>

EnterPutVals(p, db, key, vals) ==
    /\ Enter(p, "putVals", db, key, vals, {})

EnterAddVal(p, db, key, val) ==
    /\ Enter(p, "addVal", db, key, <<val>>, Range(GetValsOf(dbs[db][key])))

EnterPutIoVals(p, db, key, vals) ==
    /\ Enter(p, "putIoVals", db, key, vals, Range(GetIoValsOf(dbs[db][key])))

EnterAddIoVal(p, db, key, val) ==
    /\ Enter(p, "addIoVal", db, key, <<val>>, Range(GetIoValsOf(dbs[db][key])))

\* addVal opens no write transaction when it found val in dups.
Skips(c) == c.name = "addVal" /\ c.arg[1] \in c.dups

\* The call returns: the caller has the result, op and ret record the call.
Return(p, c, pre) ==
    /\ calls' = [calls EXCEPT ![p] = [c EXCEPT !.pc = "done"]]
    /\ ret' = c.result
    /\ op' = Call(c.name, c.db, c.key,
                  IF c.name \in {"addVal", "addIoVal"} THEN c.arg[1] ELSE c.arg,
                  pre)
    /\ meth' = c.name
    /\ UNCHANGED <<env, cf>>

\* addVal returns False without writing.
SkipWrite(p) ==
    /\ calls[p].pc = "read"
    /\ Skips(calls[p])
    /\ Return(p, calls[p], dbs[calls[p].db][calls[p].key])
    /\ UNCHANGED <<dbs, accepted>>

\* self.env.begin(db=db, write=True): one write transaction at a time; it
\* works on the values committed when it began.  cnt = cursor.count().
TxnBegin(p) ==
    LET c == calls[p]
    IN  /\ c.pc = "read"
        /\ ~Skips(c)
        /\ \A q \in Procs : calls[q].pc # "txn"
        /\ calls' = [calls EXCEPT ![p] =
                         [c EXCEPT !.pc = "txn", !.s = dbs[c.db][c.key],
                                   !.cnt = Len(dbs[c.db][c.key])]]
        /\ UNCHANGED <<dbs, ret, op, accepted, meth, env, cf>>

\* Variant of Published in which every put is committed by itself.
PublishedAtOnce(commit, committed, working) == working

\* What the other transactions find at the key a write transaction works
\* on: its values only once the with-block has ended and committed.
Published(commit, committed, working) ==
    IF commit THEN working ELSE committed

\* One turn of the loop (the single put of addVal / addIoVal) inside the
\* write transaction.
TxnStep(c) ==
    LET v == Head(c.todo)
    IN  CASE c.name = "putVals" ->
                 [s |-> PutValsTxn(c.s, <<v>>).s, cnt |-> c.cnt,
                  ret |-> c.result /\ PutValsTxn(c.s, <<v>>).ret]
          [] c.name = "addVal" ->
                 [s |-> AddValTxn(c.s, c.dups, v).s, cnt |-> c.cnt,
                  ret |-> AddValTxn(c.s, c.dups, v).ret]
          [] c.name = "putIoVals" ->
                 [s |-> PutIoLoop(c.s, c.dups, <<v>>, c.cnt, c.result).s,
                  cnt |-> c.cnt + Len(Puts(c.dups, <<v>>)),
                  ret |-> PutIoLoop(c.s, c.dups, <<v>>, c.cnt, c.result).ret]
          [] c.name = "addIoVal" ->
                 [s |-> AddIoValTxn(c.s, c.dups, v).s, cnt |-> c.cnt,
                  ret |-> AddIoValTxn(c.s, c.dups, v).ret]

TxnPut(p) ==
    LET c == calls[p]
        r == TxnStep(c)
    IN  /\ c.pc = "txn"
        /\ c.todo # <<>>
        /\ calls' = [calls EXCEPT ![p] =
                         [c EXCEPT !.s = r.s, !.cnt = r.cnt, !.result = r.ret,
                                   !.todo = Tail(c.todo)]]
        /\ dbs' = [dbs EXCEPT ![c.db][c.key] = Published(FALSE, @, r.s)]
        /\ UNCHANGED <<ret, op, accepted, meth, env, cf>>

\* The with-block ends: the transaction commits and the call returns.
TxnCommit(p) ==
    LET c == calls[p]
    IN  /\ c.pc = "txn"
        /\ c.todo = <<>>
        /\ dbs' = [dbs EXCEPT ![c.db][c.key] = Published(TRUE, @, c.s)]
        /\ accepted' = IF c.db \in IoSubs
                       THEN [accepted EXCEPT ![c.db][c.key] =
                                 @ \o Puts(c.dups, c.arg)]
                       ELSE accepted
        /\ Return(p, c, dbs[c.db][c.key])

\* The caller has taken the result of its call.
Leave(p) ==
    /\ calls[p].pc = "done"
    /\ calls' = [calls EXCEPT ![p] = Idle]
    /\ UNCHANGED <<dbs, ret, op, accepted, meth, env, cf>>

\* Two callers on the signatures and on the key event log, and reads that
\* may fall between any two of their steps.
NextConc ==
    \/ \E p \in Procs, key \in ConcKeys :
           \/ \E vals \in ConcLists : EnterPutVals(p, "sigs.", key, vals)
           \/ \E val \in ConcVals : EnterAddVal(p, "sigs.", key, val)
           \/ \E vals \in ConcLists : EnterPutIoVals(p, "kels.", key, vals)
           \/ \E val \in ConcVals : EnterAddIoVal(p, "kels.", key, val)
    \/ \E p \in Procs :
           \/ SkipWrite(p)
           \/ TxnBegin(p)
           \/ TxnPut(p)
           \/ TxnCommit(p)
           \/ Leave(p)
    \/ \E key \in ConcKeys :
           \/ GetSigs(key)
           \/ GetKes(key)

SpecConc == Init /\ [][NextConc]_vars

\* ------------------------------------------------------------- tear-down

\* Variant of ClearDirPathOf that leaves the environment open.
ClearDirPathNoClose(e) ==
    [open |-> e.open, dir |-> FALSE, raised |-> FALSE]

\* Variant of ClearDirPathOf that calls shutil.rmtree without testing
\* os.path.exists: a missing directory raises FileNotFoundError.
ClearDirPathNoTest(e) ==
    [open |-> FALSE, dir |-> FALSE, raised |-> ~e.dir]

\* clearDirPath: self.env.close() (a repeated close has no effect, and any
\* exception of it is swallowed), then shutil.rmtree(self.path) if the path
\* exists.
ClearDirPathOf(e) ==
    [open |-> FALSE, dir |-> IF e.dir THEN FALSE ELSE e.dir, raised |-> FALSE]

\* The environment with no entry in any sub-store.
NoData == [d \in Subs |-> [k \in Keys |-> <<>>]]

\* Databaser.clearDirPath.  The call record holds as pre the environment
\* the call found.  With the environment closed and its directory removed
\* nothing of the data is left.
ClearDirPath ==
    LET r == ClearDirPathOf(env)
    IN  /\ env' = [env EXCEPT !.open = r.open, !.dir = r.dir, !.torn = TRUE]
        /\ ret' = None
        /\ op' = [Call("clearDirPath", "", "", None, <<env.open, env.dir>>)
                      EXCEPT !.raised = r.raised]
        /\ meth' = "clearDirPath"
        /\ dbs' = IF r.open THEN dbs ELSE NoData
        /\ accepted' = IF r.open
                       THEN accepted
                       ELSE [d \in IoSubs |-> [k \in Keys |-> <<>>]]
        /\ UNCHANGED <<calls, cf>>

\* clearDatabaserDir(path) on the directory of the environment: the path is
\* removed if it exists; the environment is not closed, and what an open
\* environment holds stays readable through its mapping.
ClearDatabaserDir ==
    /\ env' = [env EXCEPT !.dir = IF env.dir THEN FALSE ELSE env.dir]
    /\ ret' = None
    /\ op' = Call("clearDatabaserDir", "", "", None, <<env.open, env.dir>>)
    /\ meth' = "clearDatabaserDir"
    /\ UNCHANGED <<dbs, accepted, calls, cf>>

\* Every method of the keyspace layer, on one sub-store of each mode, and
\* the tear-down at any moment.
NextTear ==
    \/ \E key \in Keys :
           \/ \E val \in SchVals : EnvSize < MaxEnv /\ PutEvt(key, val)
           \/ \E val \in SchVals : EnvSize < MaxEnv /\ SetEvt(key, val)
           \/ GetEvt(key)
           \/ DelEvt(key)
           \/ \E vals \in SchLists : EnvSize < MaxEnv /\ PutSigs(key, vals)
           \/ \E val \in SchVals : EnvSize < MaxEnv /\ AddSig(key, val)
           \/ GetSigs(key)
           \/ CntSigs(key)
           \/ DelSigs(key)
           \/ \E vals \in SchLists : EnvSize < MaxEnv /\ PutKes(key, vals)
           \/ \E val \in SchVals :
                  EnvSize < MaxEnv /\ AddIoVal("kels.", key, val)
                                  /\ meth' = "addIoVal"
           \/ GetKes(key)
           \/ GetKesLast(key)
           \/ CntKes(key)
           \/ DelKes(key)
    \/ ClearDirPath
    \/ ClearDatabaserDir

SpecTear == Init /\ [][NextTear]_vars

\* ---------------------------------------------------- opening an instance

\* What a call returns when it raised OSError (os.makedirs, tempfile.mkdtemp)
\* and when it raised UnboundLocalError; neither is a byte string.
OsError == <<-3>>
UnboundLocalError == <<-4>>

\* The circumstances a constructor call meets: its argument temp, the state
\* of the preferred and of the alternate directory ("absent", "rw" for
\* readable and writable, "noaccess"), and the outcome of os.makedirs on
\* each of them and of the creation of the temporary directory.
Circumstances ==
    [temp : BOOLEAN,
     pref : {"absent", "rw", "noaccess"},
     mk : {"ok", "EACCES", "EPERM", "ENOSPC"},
     alt : {"absent", "rw", "noaccess"},
     mkalt : {"ok", "EACCES"},
     mktmp : {"ok", "ENOSPC"}]

\* self.env = lmdb.open(self.path, max_dbs=self.MaxNamedDBs) on an existing
\* directory: it raises when the directory cannot be read and written.
LmdbOpen(path, state) ==
    IF state = "rw"
    THEN [path |-> path, dir |-> TRUE, open |-> TRUE, raised |-> FALSE,
          ret |-> None]
    ELSE [path |-> path, dir |-> TRUE, open |-> FALSE, raised |-> TRUE,
          ret |-> LmdbError]

\* The fallback: self.path is the alternate path, created if it does not
\* exist; this os.makedirs is outside any try.
AltOpen(c) ==
    IF c.alt = "absent"
    THEN IF c.mkalt = "ok"
         THEN LmdbOpen("alt", "rw")
         ELSE [path |-> "alt", dir |-> FALSE, open |-> FALSE, raised |-> TRUE,
               ret |-> OsError]
    ELSE LmdbOpen("alt", c.alt)

\* Variant of DatabaserInit without the os.access test of an existing
\* preferred path.
DatabaserInitNoAccessTest(temp, c) ==
    IF temp
    THEN IF c.mktmp = "ok"
         THEN LmdbOpen("temp", "rw")
         ELSE [path |-> "none", dir |-> FALSE, open |-> FALSE,
               raised |-> TRUE, ret |-> OsError]
    ELSE IF c.pref = "absent"
         THEN IF c.mk = "ok" THEN LmdbOpen("pref", "rw") ELSE AltOpen(c)
         ELSE LmdbOpen("pref", c.pref)

\* Databaser.__init__: a temporary instance makes its directory under a
\* fresh mkdtemp head; another one takes the preferred path, or the alternate
\* path when os.makedirs of the preferred path raises OSError or when the
\* existing preferred path is not readable and writable.
DatabaserInit(temp, c) ==
    IF temp
    THEN IF c.mktmp = "ok"
         THEN LmdbOpen("temp", "rw")
         ELSE [path |-> "none", dir |-> FALSE, open |-> FALSE,
               raised |-> TRUE, ret |-> OsError]
    ELSE IF c.pref = "absent"
         THEN IF c.mk = "ok" THEN LmdbOpen("pref", "rw") ELSE AltOpen(c)
         ELSE IF c.pref = "rw" THEN LmdbOpen("pref", "rw") ELSE AltOpen(c)

\* Before any instance is made.
InitOpen ==
    /\ dbs = NoData
    /\ ret = None
    /\ op = Call("init", "", "", None, <<>>)
    /\ accepted = [d \in IoSubs |-> [k \in Keys |-> <<>>]]
    /\ meth = "init"
    /\ env = [open |-> FALSE, dir |-> FALSE, torn |-> FALSE, temp |-> FALSE,
              path |-> "none", scope |-> "none"]
    /\ calls = [p \in Procs |-> Idle]
    /\ cf = NoFile

\* An instance object exists: its constructor returned.
Constructed == env.open \/ env.torn

\* The state a constructor call, made by name and ending as r, leaves.
Made(name, c, temp, r, scope, result) ==
    /\ env' = [open |-> r.open, dir |-> r.dir, torn |-> FALSE, temp |-> temp,
               path |-> r.path, scope |-> scope]
    /\ dbs' = NoData
    /\ accepted' = [d \in IoSubs |-> [k \in Keys |-> <<>>]]
    /\ ret' = result
    /\ op' = [Call(name, "", "", c, <<>>) EXCEPT !.raised = r.raised]
    /\ meth' = name
    /\ UNCHANGED <<calls, cf>>

\* Databaser(name=..., temp=...) or Logger(...) called directly, while no
\* other instance is open.
Construct(c) ==
    LET r == DatabaserInit(c.temp, c)
    IN  /\ ~env.open
        /\ env.scope # "body"
        /\ Made("__init__", c, c.temp, r, "none", r.ret)

\* Entry of 'with openDatabaser(...)': cls(name=name, temp=True), then the
\* yield.  When the constructor raises, the finally clause runs with
\* databaser unbound and raises UnboundLocalError.
EnterScope(name, c) ==
    LET r == DatabaserInit(TRUE, c)
    IN  /\ ~env.open
        /\ env.scope # "body"
        /\ c.temp
        /\ Made(name, c, TRUE, r, IF r.raised THEN "failed" ELSE "body",
                IF r.raised THEN UnboundLocalError ELSE None)

OpenDatabaser(c) ==
    /\ EnterScope("openDatabaser", c)

\* openLogger: openDatabaser(name=name, cls=Logger)
OpenLogger(c) ==
    /\ EnterScope("openLogger", c)

\* Variant of ScopeExitOf that cleans up after the yield without try and
\* finally: an exception of the body skips it.
ScopeExitNoFinally(e, exc) ==
    IF exc THEN [open |-> e.open, dir |-> e.dir, raised |-> FALSE]
           ELSE ClearDirPathOf(e)

\* finally: databaser.clearDirPath(), whether the body ended or raised.
ScopeExitOf(e, exc) == ClearDirPathOf(e)

\* The with-block ends, by reaching its end or by an exception of its body
\* (exc), which goes on to the caller after the finally clause.
ExitScope(exc) ==
    LET r == ScopeExitOf(env, exc)
    IN  /\ env.scope = "body"
        /\ env' = [env EXCEPT !.open = r.open, !.dir = r.dir, !.torn = TRUE,
                              !.scope = "ended"]
        /\ dbs' = IF r.open THEN dbs ELSE NoData
        /\ accepted' = IF r.open
                       THEN accepted
                       ELSE [d \in IoSubs |-> [k \in Keys |-> <<>>]]
        /\ ret' = None
        /\ op' = [Call("exitScope", "", "", None, <<env.open, env.dir>>)
                      EXCEPT !.raised = exc \/ r.raised]
        /\ meth' = "exitScope"
        /\ UNCHANGED <<calls, cf>>

\* Instances are opened directly or in a with-block, written to, read and
\* torn down.
NextOpen ==
    \/ \E c \in Circumstances :
           \/ Construct(c)
           \/ OpenDatabaser(c)
           \/ OpenLogger(c)
    \/ \E exc \in BOOLEAN : ExitScope(exc)
    \/ Constructed /\ ClearDirPath
    \/ \E key \in ConcKeys :
           \/ \E val \in SchVals : Constructed /\ PutEvt(key, val)
           \/ Constructed /\ GetEvt(key)
           \/ Constructed /\ DelEvt(key)

SpecOpen == InitOpen /\ [][NextOpen]_vars

\* ------------------------------------------------------------- key builders

\* Radix of '%x'.
HexRadix == 16

\* '%x' % n: the hexadecimal digits of n, most significant first.
RECURSIVE Hex(_)
Hex(n) ==
    IF n < HexRadix
    THEN <<HexDigit(n)>>
    ELSE Hex(n \div HexRadix) \o <<HexDigit(n % HexRadix)>>

\* Variant of DgKey that joins prefix and digest without the separator.
DgKeyNoSep(pre, dig) == pre \o dig

\* dgKey: b'%s.%s' % (pre, dig)
DgKey(pre, dig) == pre \o <<46>> \o dig

\* Variant of SnKey that prints the number without zero padding.
SnKeyUnpadded(pre, sn) == pre \o <<46>> \o Hex(sn)

\* snKey: b'%s.%032x' % (pre, sn)
SnKey(pre, sn) == pre \o <<46>> \o ZeroPad(Hex(sn), SnWidth)

\* Identifier prefixes: b'B', b'BW'.
Pres == {<<66>>, <<66, 87>>}

\* Sequence numbers handed to snKey: around the digit 9 / a step, the carry
\* into a second digit, and the first numbers wider than two digits.
Sns == {0, 1, 2, 9, 10, 15, 16, 17, 160, 255, 256, 257}

\* A call of a key builder: it returns the key and touches no store.  The
\* call record holds the prefix as key, the number or digest as arg, and as
\* pre the value the previous call returned.
BuildKey(name, pre, arg, k) ==
    /\ ret' = k
    /\ op' = Call(name, "", pre, arg, ret)
    /\ meth' = name
    /\ UNCHANGED <<dbs, accepted, env, calls, cf>>

DgKeyCall(pre, dig) ==
    /\ BuildKey("dgKey", pre, dig, DgKey(pre, dig))

SnKeyCall(pre, sn) ==
    /\ BuildKey("snKey", pre, sn, SnKey(pre, sn))

\* A prefix outside the Base64 alphabet: b'B.' holds the separator byte.
DottedPres == {<<66, 46>>}

\* Digests handed to dgKey: b'a' .. b'e', b'Wa' and b'.a'.
KeyDigs == Digs \cup {<<87, 97>>, <<46, 97>>}

NextKeys ==
    \E pre \in Pres \cup DottedPres :
        \/ \E dig \in KeyDigs : DgKeyCall(pre, dig)
        \/ \E sn \in Sns : SnKeyCall(pre, sn)

SpecKeys == Init /\ [][NextKeys]_vars

\* ----------------------------------------------------------------- claims

\* keeps the first occurrence of every value of log, in order
RECURSIVE FirstOccurrences(_)
FirstOccurrences(log) ==
    IF log = <<>>
    THEN <<>>
    ELSE LET front == FirstOccurrences(SubSeq(log, 1, Len(log) - 1))
             v == log[Len(log)]
         IN  IF v \in Range(front) THEN front ELSE Append(front, v)

StrictlyAscending(s) == \A i \in 1..(Len(s) - 1) : BytesLt(s[i], s[i + 1])

\* C1: for every insertion-ordered sub-store and key, getIoVals returns the
\* accepted values, prefix stripped, in the order in which they were first
\* accepted since the key was last deleted.
C1_InsertionOrder ==
    \A db \in IoSubs, key \in Keys :
        GetIoValsOf(dbs[db][key]) = FirstOccurrences(accepted[db][key])

\* C2: in every insertion-ordered sub-store the stripped values stored at a
\* key are pairwise distinct, whatever lists were put.
C2_NoDuplicateValues ==
    \A db \in IoSubs, key \in Keys :
        LET g == GetIoValsOf(dbs[db][key])
        IN  \A i, j \in 1..Len(g) : i # j => g[i] # g[j]

\* C3: putVal inserts (k, v) and returns true iff k has no value; when k has
\* a value it returns false and nothing stored changes.
C3_PutValWriteOnce ==
    [][op'.name = "putVal" =>
          LET s == dbs[op'.db][op'.key]
          IN  /\ ret' = (s = <<>>)
              /\ dbs' = [dbs EXCEPT ![op'.db][op'.key] =
                             IF s = <<>> THEN <<op'.arg>> ELSE s]]_vars

\* a put on a key holding another value has returned false and left it
C3_Witness ==
    /\ op.name = "putVal"
    /\ ret = FALSE
    /\ op.pre # <<>>
    /\ op.pre # <<op.arg>>
    /\ dbs[op.db][op.key] = op.pre

\* C4: setVal returns true whether or not the key was present, the value
\* then stored at the key is the one set, and a getVal of the key that
\* follows it returns that value.
C4_SetGetRoundTrip ==
    [][/\ op'.name = "setVal" =>
              /\ ret' = TRUE
              /\ GetValOf(dbs'[op'.db][op'.key]) = op'.arg
       /\ (/\ op.name = "setVal"
           /\ op'.name = "getVal"
           /\ op'.db = op.db
           /\ op'.key = op.key) => ret' = op.arg]_vars

\* a set has overwritten another value and returned true
C4_Witness ==
    /\ op.name = "setVal"
    /\ ret = TRUE
    /\ op.pre # <<>>
    /\ op.pre # <<op.arg>>
    /\ dbs[op.db][op.key] = <<op.arg>>

DelNames == {"delVal", "delVals", "delIoVals"}

\* C5: delVal, delVals and delIoVals return true iff the key existed; on an
\* absent key they return false and change no sub-store; the key is absent
\* afterwards, so a second delete of it returns false.
C5_DeleteIdempotent ==
    [][/\ op'.name \in DelNames =>
              LET s == dbs[op'.db][op'.key]
              IN  /\ ret' = (s # <<>>)
                  /\ s = <<>> => dbs' = dbs
                  /\ dbs' = [dbs EXCEPT ![op'.db][op'.key] = <<>>]
       /\ (/\ op.name \in DelNames
           /\ op'.name \in DelNames
           /\ op'.db = op.db
           /\ op'.key = op.key) => ret' = FALSE]_vars

\* a delete of an absent key has returned false while other entries exist
C5_Witness ==
    /\ op.name \in DelNames
    /\ ret = FALSE
    /\ op.pre = <<>>
    /\ EnvSize > 0

\* C6: after a putVals or addVal the values at the key are strictly
\* ascending in byte order and are exactly the values held before together
\* with the values passed; every key of a lexicographic sub-store is
\* strictly ascending in every state.
C6_LexOrder ==
    [][/\ \A db \in DupSubs, key \in Keys :
              StrictlyAscending(GetValsOf(dbs'[db][key]))
       /\ op'.name \in {"putVals", "addVal"} =>
              LET s == dbs[op'.db][op'.key]
                  new == IF op'.name = "putVals" THEN Range(op'.arg)
                                                  ELSE {op'.arg}
              IN  Range(GetValsOf(dbs'[op'.db][op'.key])) = Range(s) \cup new]_vars

\* two values put in descending order are stored ascending
C6_Witness ==
    /\ op.name = "putVals"
    /\ Len(op.arg) = 2
    /\ BytesLt(op.arg[2], op.arg[1])
    /\ op.pre = <<>>
    /\ dbs[op.db][op.key] = <<op.arg[2], op.arg[1]>>

\* C7: addVal returns false and changes nothing when the value is among the
\* values at the key; otherwise it inserts the value and returns true; the
\* value is stored exactly once afterwards.
C7_AddVal ==
    [][op'.name = "addVal" =>
          LET s == dbs[op'.db][op'.key]
              s2 == dbs'[op'.db][op'.key]
              v == op'.arg
          IN  /\ v \in Range(s) => ret' = FALSE /\ dbs' = dbs
              /\ v \notin Range(s) =>
                     /\ ret' = TRUE
                     /\ Range(s2) = Range(s) \cup {v}
                     /\ Len(s2) = Len(s) + 1
                     /\ \A d \in Subs, k \in Keys :
                            <<d, k>> # <<op'.db, op'.key>> => dbs'[d][k] = dbs[d][k]
              /\ Cardinality({i \in 1..Len(s2) : s2[i] = v}) = 1]_vars

\* a second add of a value held with another one has returned false
C7_Witness ==
    /\ op.name = "addVal"
    /\ ret = FALSE
    /\ op.arg \in Range(op.pre)
    /\ Len(op.pre) >= 2
    /\ dbs[op.db][op.key] = op.pre

\* C8: addIoVal returns true iff the value was not among the stripped values
\* at the key, and then getIoVals is the former list with the value appended;
\* when the value is present it returns false and getIoVals is unchanged.
C8_AddIoVal ==
    [][op'.name = "addIoVal" =>
          LET g == GetIoValsOf(dbs[op'.db][op'.key])
              g2 == GetIoValsOf(dbs'[op'.db][op'.key])
              v == op'.arg
          IN  /\ ret' = (v \notin Range(g))
              /\ g2 = IF v \in Range(g) THEN g ELSE Append(g, v)]_vars

\* C9: putIoVals returns true iff this call stored at least one entry, which
\* is iff some value of the list was not among the stripped values at the
\* key; when it returns false no sub-store has changed; entries held before
\* are kept.
C9_PutIoValsResult ==
    [][op'.name = "putIoVals" =>
          LET s == dbs[op'.db][op'.key]
              s2 == dbs'[op'.db][op'.key]
              vals == op'.arg
              g == Range(GetIoValsOf(s))
          IN  /\ ret' = (Len(s2) > Len(s))
              /\ ret' = (\E i \in 1..Len(vals) : vals[i] \notin g)
              /\ ret' = FALSE => dbs' = dbs
              /\ Range(s) \subseteq Range(s2)]_vars

\* a put of a list whose values are all present has returned false
C9_Witness ==
    /\ op.name = "putIoVals"
    /\ ret = FALSE
    /\ Len(op.arg) = 2
    /\ op.arg[1] # op.arg[2]
    /\ dbs[op.db][op.key] = op.pre

\* C10: getIoValsLast returns the absent marker iff the key has no entries,
\* and otherwise the stripped value accepted last at the key, which is the
\* last element of getIoVals.
C10_LastAccepted ==
    \A db \in IoSubs, key \in Keys :
        LET s == dbs[db][key]
            g == GetIoValsOf(s)
            log == accepted[db][key]
        IN  /\ GetIoValsLastOf(s) = None <=> s = <<>>
            /\ s # <<>> =>
                   /\ log # <<>>
                   /\ GetIoValsLastOf(s) = log[Len(log)]
                   /\ GetIoValsLastOf(s) = g[Len(g)]

\* C11: in every reachable state and for every key of a multi-value
\* sub-store, the count equals the length of the list the matching getter
\* returns (cntVals against getVals, cntIoVals against getIoVals), the count
\* is 0 and the list is empty exactly when the key is absent, and a count call
\* returns that number.
C11_CountIsLength ==
    /\ \A db \in DupSubs, key \in Keys :
           LET s == dbs[db][key]
           IN  /\ CntValsOf(s) = Len(GetValsOf(s))
               /\ (CntValsOf(s) = 0) <=> (s = <<>>)
               /\ (GetValsOf(s) = <<>>) <=> (s = <<>>)
    /\ \A db \in IoSubs, key \in Keys :
           LET s == dbs[db][key]
           IN  /\ CntIoValsOf(s) = Len(GetIoValsOf(s))
               /\ (CntIoValsOf(s) = 0) <=> (s = <<>>)
               /\ (GetIoValsOf(s) = <<>>) <=> (s = <<>>)
    /\ op.name = "cntVals" => ret = Len(GetValsOf(dbs[op.db][op.key]))
    /\ op.name = "cntIoVals" => ret = Len(GetIoValsOf(dbs[op.db][op.key]))

\* cntIoVals has counted the two entries of a key.
C11_Witness ==
    /\ op.name = "cntIoVals"
    /\ ret = 2
    /\ Len(GetIoValsOf(dbs[op.db][op.key])) = 2

\* Number of ordinals the padded prefix can number (16^6 for '%06x').
Capacity == OrdBase ^ OrdWidth

\* C12: when an insertion-ordered key already holds as many entries as its
\* fixed-width ordinal can number, a further putIoVals or addIoVal of a value
\* not yet stored there is refused: it does not return true and it stores
\* nothing.
C12_CapacityRefused ==
    [][(/\ op'.name \in {"putIoVals", "addIoVal"}
        /\ Len(dbs[op'.db][op'.key]) >= Capacity
        /\ LET dups == Range(GetIoValsOf(dbs[op'.db][op'.key]))
           IN  IF op'.name = "addIoVal"
               THEN op'.arg \notin dups
               ELSE \E i \in 1..Len(op'.arg) : op'.arg[i] \notin dups)
       => (dbs' = dbs /\ ret' # TRUE)]_vars

\* First sequence number wider than the padded field (2^128 for '%032x').
SnLimit == HexRadix ^ SnWidth

\* C13: for every prefix and all sequence numbers sn1 < sn2 below the width
\* limit, snKey(pre, sn1) sorts before snKey(pre, sn2) in byte order; checked
\* on every pair of consecutive snKey calls with the same prefix.
C13_SnKeyOrder ==
    [][(/\ op.name = "snKey"
        /\ op'.name = "snKey"
        /\ op.key = op'.key
        /\ op.arg < op'.arg
        /\ op'.arg < SnLimit)
       => BytesLt(ret, ret')]_vars

\* The key of sequence number 16 was built right after that of 2, and sorts
\* after it.
C13_Witness ==
    /\ op.name = "snKey"
    /\ op.arg = 16
    /\ op.pre = SnKey(op.key, 2)
    /\ ret = SnKey(op.key, 16)
    /\ BytesLt(op.pre, ret)

\* The sub-store each writing or deleting method of the schema layer is
\* named for.
StoreOf ==
    [putEvt |-> "evts.", setEvt |-> "evts.", delEvt |-> "evts.",
     putDts |-> "dtss.", setDts |-> "dtss.", delDts |-> "dtss.",
     putUre |-> "ures.", setUre |-> "ures.", delUre |-> "ures.",
     putSigs |-> "sigs.", addSig |-> "sigs.", delSigs |-> "sigs.",
     putRcts |-> "rcts.", addRct |-> "rcts.", delRcts |-> "rcts.",
     putKes |-> "kels.", delKes |-> "kels.",
     putPses |-> "pses.", delPses |-> "pses.",
     putOoes |-> "ooes.", delOoes |-> "ooes.",
     putDes |-> "dels.", delDes |-> "dels.",
     putLdes |-> "ldes.", delLdes |-> "ldes."]

\* C14: every write or delete of the schema layer changes only the sub-store
\* its method is named for; the other nine sub-stores are unchanged, also
\* where they hold the same key.
C14_OnlyNamedStore ==
    [][meth' \in DOMAIN StoreOf =>
           \A d \in Subs \ {StoreOf[meth']} : dbs'[d] = dbs[d]]_vars

\* delPses has deleted a key that the out of order escrow still holds.
C14_Witness ==
    /\ meth = "delPses"
    /\ ret = TRUE
    /\ dbs["pses."][op.key] = <<>>
    /\ dbs["ooes."][op.key] # <<>>

\* The ordering prefix of a stored entry: its bytes up to the first '.'.
OrdOf(e) ==
    SubSeq(e, 1, CHOOSE i \in 1..Len(e) :
                     e[i] = 46 /\ \A j \in 1..(i - 1) : e[j] # 46)

\* The calls of both callers have returned.
BothDone == \A p \in Procs : calls[p].pc = "done"

\* C15: under every interleaving of putIoVals / addIoVal callers on one key,
\* no two entries stored at the key carry the same ordinal prefix, because
\* the ordinal is the duplicate count read inside the write transaction.
C15_DistinctOrdinals ==
    \A db \in IoSubs, key \in Keys :
        LET s == dbs[db][key]
        IN  \A i, j \in 1..Len(s) : i # j => OrdOf(s[i]) # OrdOf(s[j])

\* Two callers read the key while it was empty, both wrote, and the key holds
\* the entries numbered 0 and 1.
C15_Witness ==
    /\ BothDone
    /\ \A p \in Procs :
           /\ calls[p].name \in {"putIoVals", "addIoVal"}
           /\ calls[p].key = "k1"
           /\ calls[p].dups = {}
           /\ calls[p].result
    /\ Len(dbs["kels."]["k1"]) = 2
    /\ OrdOf(dbs["kels."]["k1"][1]) = OrdPrefix(0)
    /\ OrdOf(dbs["kels."]["k1"][2]) = OrdPrefix(1)

\* Number of entries of s whose payload is v.
Times(s, v) == Cardinality({i \in 1..Len(s) : Strip(s[i]) = v})

\* C16: when two callers have inserted the same value at the same
\* insertion-ordered key, each by its read of the values stored there followed
\* by its write transaction, the key holds that value exactly once, however
\* their steps interleaved.
C16_StoredOnce ==
    (/\ BothDone
     /\ \A p \in Procs : calls[p].name \in {"putIoVals", "addIoVal"})
    => \A v \in ConcVals :
           (\A p \in Procs : calls[p].key = "k1" /\ v \in Range(calls[p].arg))
           => Times(dbs["kels."]["k1"], v) = 1

\* C17: when two callers add the same value at the same key with addVal (or
\* both with addIoVal) and the value was not stored before both had read the
\* key, exactly one of them receives true and the other false.
C17_OneTrue ==
    (/\ BothDone
     /\ calls[1].name \in {"addVal", "addIoVal"}
     /\ calls[1].name = calls[2].name
     /\ calls[1].key = calls[2].key
     /\ calls[1].arg = calls[2].arg
     /\ \E p \in Procs : calls[p].arg[1] \notin calls[p].dups)
    => calls[1].result # calls[2].result

\* The values the key holds after the whole call c has run on the values s.
WholeCall(c, s) ==
    CASE c.name = "putVals" -> PutValsTxn(s, c.arg).s
      [] c.name = "addVal" -> AddValTxn(s, c.dups, c.arg[1]).s
      [] c.name = "putIoVals" -> PutIoValsTxn(s, c.dups, c.arg).s
      [] c.name = "addIoVal" -> AddIoValTxn(s, c.dups, c.arg[1]).s

\* C18: a multi-value put commits all its insertions at once: whenever the
\* values a reader can find at a key change, the step is the commit of one
\* call and takes the key from the values before the call to the values after
\* the whole call, so that a concurrent read returns one of these two and
\* never a partial result.
C18_AtomicPut ==
    [][\A db \in Subs, key \in Keys :
           dbs'[db][key] # dbs[db][key] =>
               \E p \in Procs :
                   /\ calls[p].pc = "txn"
                   /\ calls'[p].pc = "done"
                   /\ calls[p].db = db
                   /\ calls[p].key = key
                   /\ dbs'[db][key] = WholeCall(calls[p], dbs[db][key])]_vars

\* getVals ran while a putVals of two values had put the first of them: it
\* returned the values stored before the call.
C18_Witness ==
    /\ op.name = "getVals"
    /\ \E p \in Procs :
           /\ calls[p].pc = "txn"
           /\ calls[p].name = "putVals"
           /\ calls[p].key = op.key
           /\ Len(calls[p].arg) = 2
           /\ Len(calls[p].todo) = 1
           /\ calls[p].s # dbs["sigs."][op.key]
    /\ ret = dbs["sigs."][op.key]

\* The methods of the keyspace layer.
KeyspaceOps ==
    {"putVal", "setVal", "getVal", "delVal",
     "putVals", "addVal", "getVals", "cntVals", "delVals",
     "putIoVals", "addIoVal", "getIoVals", "getIoValsLast", "cntIoVals",
     "delIoVals"}

\* C19: once clearDirPath has torn the instance down, every operation of the
\* keyspace layer raises an error instead of returning a value, and nothing
\* is stored.
C19_FailsAfterTeardown ==
    (env.torn /\ op.name \in KeyspaceOps)
    => (op.raised /\ ret = LmdbError /\ dbs = NoData)

\* putVal was called on the torn-down instance and raised.
C19_Witness ==
    /\ op.name = "putVal"
    /\ op.raised
    /\ ret = LmdbError
    /\ ~env.open
    /\ ~env.dir

\* C20: tear-down is idempotent: clearDirPath on an environment already
\* closed whose directory is already removed raises nothing, returns None and
\* leaves the environment closed, the directory removed and the stores empty,
\* as the first call left them; so does clearDatabaserDir on a directory
\* already removed.
C20_TeardownIdempotent ==
    /\ (op.name = "clearDirPath" /\ op.pre = <<FALSE, FALSE>>)
       => (~op.raised /\ ret = None /\ <<env.open, env.dir>> = op.pre
                      /\ dbs = NoData)
    /\ (op.name = "clearDatabaserDir" /\ ~op.pre[2])
       => (~op.raised /\ ret = None /\ <<env.open, env.dir>> = op.pre)

\* clearDirPath has returned from a call that found the environment closed
\* and the directory removed.
C20_Witness ==
    /\ op.name = "clearDirPath"
    /\ op.pre = <<FALSE, FALSE>>
    /\ ~op.raised
    /\ ret = None
    /\ ~env.open
    /\ ~env.dir

\* C21: the tear-down closes the environment and removes the directory of a
\* temporary instance, and only of such: after clearDirPath on an open
\* persistent instance (temp false) the environment is closed and its
\* directory is still there.
C21_RemovesOnlyTemp ==
    (op.name = "clearDirPath" /\ op.pre = <<TRUE, TRUE>>)
    => (~env.open /\ (env.dir <=> ~env.temp))

\* C22: a databaser obtained from the openDatabaser / openLogger scope is open
\* when the body is entered, and once the scope has ended, at the end of the
\* body or by an exception raised in it, the environment is closed and the
\* directory it resolved to is gone.
C22_ScopeTearsDown ==
    /\ (op.name \in {"openDatabaser", "openLogger"} /\ env.scope = "body")
       => (env.open /\ env.dir /\ env.temp)
    /\ env.scope = "ended" => (~env.open /\ ~env.dir)

\* The body of a with-block raised while its instance was open, and the
\* scope has ended with the instance torn down.
C22_Witness ==
    /\ op.name = "exitScope"
    /\ op.raised
    /\ op.pre = <<TRUE, TRUE>>
    /\ env.scope = "ended"
    /\ ~env.open
    /\ ~env.dir

\* C23: when os.makedirs of the preferred path fails while a persistent
\* instance is opened, the alternate path is used only if the failure is a
\* permission error (EACCES, EPERM); with any other error the constructor
\* raises and no alternate path is used.
C23_FallbackOnPermissionOnly ==
    (/\ op.name = "__init__"
     /\ ~op.arg.temp
     /\ op.arg.pref = "absent"
     /\ op.arg.mk \notin {"ok", "EACCES", "EPERM"})
    => (op.raised /\ env.path # "alt")

\* The path the constructor has to resolve to under circumstances c.
Resolved(c) ==
    IF (c.pref = "absent" /\ c.mk = "ok") \/ c.pref = "rw"
    THEN "pref"
    ELSE "alt"

\* C25: a persistent instance resolves to the preferred path when that path
\* can be created or exists readable and writable, and to the alternate path
\* when its creation fails or the existing path is not readable and writable;
\* in every open that succeeds the resolved directory exists and the
\* environment is open on it.
C25_PathResolution ==
    (op.name = "__init__" /\ ~op.arg.temp)
    => /\ env.path = Resolved(op.arg)
       /\ ~op.raised => (env.open /\ env.dir)

\* The preferred path exists but cannot be read and written, the alternate
\* path did not exist: the instance is open on the alternate path.
C25_Witness ==
    /\ op.name = "__init__"
    /\ ~op.arg.temp
    /\ op.arg.pref = "noaccess"
    /\ op.arg.alt = "absent"
    /\ ~op.raised
    /\ env.path = "alt"
    /\ env.open
    /\ env.dir

\* C24: a putVals that does not fault returns true, also when every value
\* passed was already stored at the key, and leaves at the key exactly the
\* values held before together with the values passed, each stored once.
C24_PutValsUnion ==
    (op.name = "putVals" /\ ~op.raised)
    => /\ ret = TRUE
       /\ Range(dbs[op.db][op.key]) = Range(op.pre) \cup Range(op.arg)
       /\ Len(dbs[op.db][op.key]) = Cardinality(Range(op.pre) \cup Range(op.arg))

\* a putVals of two values both already stored has returned true and left
\* the key as it was
C24_Witness ==
    /\ op.name = "putVals"
    /\ ~op.raised
    /\ Len(op.arg) = 2
    /\ op.arg[1] # op.arg[2]
    /\ Range(op.arg) \subseteq Range(op.pre)
    /\ ret = TRUE
    /\ dbs[op.db][op.key] = op.pre

\* addIoVal applied to each value of vals in turn, every call reading the
\* key afresh; result tells whether some call returned true.
RECURSIVE AddEach(_, _, _)
AddEach(s, vals, result) ==
    IF vals = <<>>
    THEN [s |-> s, ret |-> result]
    ELSE LET r == AddIoValTxn(s, Range(GetIoValsOf(s)), Head(vals))
         IN  AddEach(r.s, Tail(vals), result \/ r.ret)

\* C26: putIoVals(k, [v1 .. vn]) leaves at the key the entries that
\* addIoVal(k, v1) .. addIoVal(k, vn) in that order would leave, and returns
\* true iff at least one of those calls would return true, for every list,
\* lists with repeated values included.
C26_PutIoValsIsAddEach ==
    (op.name = "putIoVals" /\ ~op.raised)
    => LET r == AddEach(op.pre, op.arg, FALSE)
       IN  /\ dbs[op.db][op.key] = r.s
           /\ ret = r.ret

\* C27: every entry stored at an insertion-ordered key carries an ordinal
\* prefix of exactly the number of bytes the getters slice off, so that
\* slicing an entry gives back the value that was written, at every ordinal
\* at which an insertion was accepted.
C27_PrefixWidth ==
    \A db \in IoSubs, key \in Keys :
        LET s == dbs[db][key]
        IN  \A i \in 1..Len(s) :
                /\ Len(OrdOf(s[i])) = StripLen
                /\ OrdOf(s[i]) \o Strip(s[i]) = s[i]
                /\ Strip(s[i]) \in Range(accepted[db][key])

\* C28: a delVals or delIoVals leaves nothing at the key: the getter returns
\* the empty list, the count is 0 and getIoValsLast returns the absent
\* marker; the values written at an insertion-ordered key since its last
\* delIoVals (accepted is emptied by it) are numbered from ordinal 0 and
\* getIoVals returns exactly them, in the order they were written.
C28_DeleteThenRenumber ==
    /\ (op.name \in {"delVals", "delIoVals"} /\ ~op.raised)
       => LET s == dbs[op.db][op.key]
          IN  IF op.name = "delVals"
              THEN GetValsOf(s) = <<>> /\ CntValsOf(s) = 0
              ELSE /\ GetIoValsOf(s) = <<>>
                   /\ CntIoValsOf(s) = 0
                   /\ GetIoValsLastOf(s) = None
    /\ \A db \in IoSubs, key \in Keys :
           LET s == dbs[db][key]
           IN  /\ s # <<>> => OrdOf(s[1]) = OrdPrefix(0)
               /\ GetIoValsOf(s) = accepted[db][key]

\* C29: in every state and for every key of an insertion-ordered sub-store
\* holding n entries, the ordinal prefixes of the entries are exactly those
\* of 0 .. n-1, each carried by one entry, so that the duplicate count is the
\* next unused ordinal.
C29_OrdinalsContiguous ==
    \A db \in IoSubs, key \in Keys :
        LET s == dbs[db][key]
            n == CntIoValsOf(s)
        IN  /\ {OrdOf(s[i]) : i \in 1..Len(s)} = {OrdPrefix(j) : j \in 0..(n - 1)}
            /\ \A i, j \in 1..Len(s) : OrdOf(s[i]) = OrdOf(s[j]) => i = j
            /\ \A i \in 1..Len(s) : OrdOf(s[i]) # OrdPrefix(n)

\* a putIoVals has appended two entries to a key that held one: the key
\* holds the ordinals 0, 1 and 2
C29_Witness ==
    /\ op.name = "putIoVals"
    /\ Len(op.pre) = 1
    /\ Len(dbs[op.db][op.key]) = 3
    /\ accepted[op.db][op.key] # <<>>
    /\ {OrdOf(dbs[op.db][op.key][i]) : i \in 1..3} = {OrdPrefix(0), OrdPrefix(1), OrdPrefix(2)}

\* Prefixes of the legal domain: no separator byte in them.
LegalPres == {pre \in Pres \cup DottedPres : 46 \notin Range(pre)}

\* C30: the key builders are injective on prefixes without the '.' byte: the
\* key a dgKey call has returned for such a prefix is the key of no other
\* pair of such a prefix and a digest, and the key an snKey call has returned
\* for such a prefix and a sequence number below the width limit is the key
\* of no other such pair.
C30_KeysInjective ==
    /\ (op.name = "dgKey" /\ op.key \in LegalPres)
       => \A pre \in LegalPres, dig \in KeyDigs :
              DgKey(pre, dig) = ret => (pre = op.key /\ dig = op.arg)
    /\ (op.name = "snKey" /\ op.key \in LegalPres)
       => (op.arg < SnLimit
           => \A pre \in LegalPres, sn \in Sns :
                  (sn < SnLimit /\ SnKey(pre, sn) = ret)
                  => (pre = op.key /\ sn = op.arg))

\* dgKey has returned for the prefix b'B' and the digest b'.a' the key that
\* the prefix b'B.', outside the legal domain, gives with the digest b'a'
C30_Witness ==
    /\ op.name = "dgKey"
    /\ op.key \in LegalPres
    /\ op.arg = <<46, 97>>
    /\ \E pre \in DottedPres, dig \in KeyDigs :
           /\ DgKey(pre, dig) = ret
           /\ pre # op.key

\* ------------------------------------------------------------------ reads

\* Every reading method of the schema layer, on all ten sub-stores.
Reads(key) ==
    \/ GetEvt(key)
    \/ GetDts(key)
    \/ GetUre(key)
    \/ GetSigs(key)
    \/ CntSigs(key)
    \/ GetRcts(key)
    \/ CntRcts(key)
    \/ GetKes(key)
    \/ GetKesLast(key)
    \/ CntKes(key)
    \/ GetPses(key)
    \/ GetPsesLast(key)
    \/ CntPses(key)
    \/ GetOoes(key)
    \/ GetOoesLast(key)
    \/ CntOoes(key)
    \/ GetDes(key)
    \/ GetDesLast(key)
    \/ CntDes(key)
    \/ GetLdes(key)
    \/ GetLdesLast(key)
    \/ CntLdes(key)

\* The reads among one inserting method per sub-store, taken while the
\* environment has room.
NextRead ==
    \E key \in Keys :
        \/ Reads(key)
        \/ \E val \in SchVals : EnvSize < MaxEnv /\ PutEvt(key, val)
        \/ \E val \in SchVals : EnvSize < MaxEnv /\ PutDts(key, val)
        \/ \E val \in SchVals : EnvSize < MaxEnv /\ PutUre(key, val)
        \/ \E val \in SchVals : EnvSize < MaxEnv /\ AddSig(key, val)
        \/ \E val \in SchVals : EnvSize < MaxEnv /\ AddRct(key, val)
        \/ \E vals \in SchLists : EnvSize < MaxEnv /\ PutKes(key, vals)
        \/ \E vals \in SchLists : EnvSize < MaxEnv /\ PutPses(key, vals)
        \/ \E vals \in SchLists : EnvSize < MaxEnv /\ PutOoes(key, vals)
        \/ \E vals \in SchLists : EnvSize < MaxEnv /\ PutDes(key, vals)
        \/ \E vals \in SchLists : EnvSize < MaxEnv /\ PutLdes(key, vals)

SpecRead == Init /\ [][NextRead]_vars

\* The reading operations of the keyspace layer.
ReadNames ==
    {"getVal", "getVals", "cntVals", "getIoVals", "getIoValsLast", "cntIoVals"}

\* C31: every read (getVal, getVals, cntVals, getIoVals, getIoValsLast,
\* cntIoVals, through every schema-layer wrapper) leaves the contents of all
\* ten sub-stores as they were, whether the key read is present or absent.
C31_ReadsChangeNothing ==
    [][op'.name \in ReadNames => dbs' = dbs]_vars

\* getDesLast has returned the entry of a present key while a second entry
\* is stored elsewhere, and both are still stored
C31_Witness ==
    /\ meth = "getDesLast"
    /\ op.name = "getIoValsLast"
    /\ op.pre # <<>>
    /\ ret = <<97>>
    /\ dbs[op.db][op.key] = op.pre
    /\ EnvSize = 2

\* C32: when the construction of the databaser fails inside openDatabaser or
\* openLogger, the error the caller of the scope receives is the one the
\* constructor raised.
C32_ConstructionErrorReceived ==
    (op.name \in {"openDatabaser", "openLogger"} /\ op.raised)
    => ret = DatabaserInit(TRUE, op.arg).ret

\* ------------------------------------------------ the configuration file

ValueError == <<-5>>
IoError == <<-6>>
DecodeError == <<-7>>

\* Extensions of self.path: the three put and get know, and another one.
ValidExts == {".json", ".mgpk", ".cbor"}
Exts == ValidExts \cup {".txt"}

\* The dicts handed to put: {} and {"a": 1}.
Datas == {<<>>, <<<<"a", 1>>>>}

\* The human argument of put and get: None, True or False.
HumanArgs == {"None", "True", "False"}

\* human = human if human is not None else self.human
Human(arg, c) == IF arg = "None" THEN c.human ELSE arg = "True"

\* What put writes for an extension it knows: the serialization of data by
\* hjson.dumps, json.dumps, msgpack.dumps or cbor.dumps.
Dumps(ext, human, data) ==
    <<[fmt |-> IF ext = ".json" THEN (IF human THEN "hjson" ELSE "json")
               ELSE IF ext = ".mgpk" THEN "mgpk" ELSE "cbor",
       data |-> data]>>

\* What a file found at self.path may hold when the instance is made: nothing,
\* or what a put wrote for its extension; any serialization when the
\* extension is not one put writes.
Contents(ext) ==
    {<<>>} \cup
    IF ext \in ValidExts
    THEN {Dumps(ext, h, d) : h \in BOOLEAN, d \in Datas}
    ELSE {Dumps(e, h, d) : e \in ValidExts, h \in BOOLEAN, d \in Datas}

\* hjson.loads, json.loads, msgpack.loads, cbor.loads on a file put wrote
\* for the same extension.  hjson.loads reads strict JSON too; json.loads
\* reads HJSON text only when it is also JSON ('{}').
Loads(ext, human, ser) ==
    IF ext = ".json" /\ ~human /\ ser[1].fmt = "hjson" /\ ser[1].data # <<>>
    THEN [ret |-> DecodeError, raised |-> TRUE]
    ELSE [ret |-> ser[1].data, raised |-> FALSE]

\* Configer.put
PutOf(c, data, human) ==
    IF ~c.opened
    THEN [cf |-> c, ret |-> ValueError, raised |-> TRUE]
    ELSE IF c.ext \in ValidExts
         THEN [cf |-> [c EXCEPT !.ser = Dumps(c.ext, human, data)],
               ret |-> <<TRUE>>, raised |-> FALSE]
         ELSE [cf |-> [c EXCEPT !.ser = <<>>], ret |-> IoError, raised |-> TRUE]

\* Configer.get
GetOf(c, human) ==
    IF ~c.opened
    THEN [ret |-> ValueError, raised |-> TRUE]
    ELSE IF c.ser = <<>>
         THEN [ret |-> <<>>, raised |-> FALSE]
         ELSE IF c.ext \in ValidExts
              THEN Loads(c.ext, human, c.ser)
              ELSE [ret |-> IoError, raised |-> TRUE]

\* A Configer has been made on a file of some extension and opened; a
\* temporary one starts on an empty file.
InitConf ==
    /\ dbs = NoData
    /\ ret = None
    /\ op = Call("init", "", "", None, <<>>)
    /\ accepted = [d \in IoSubs |-> [k \in Keys |-> <<>>]]
    /\ meth = "init"
    /\ env = [open |-> FALSE, dir |-> FALSE, torn |-> FALSE, temp |-> FALSE,
              path |-> "none", scope |-> "none"]
    /\ calls = [p \in Procs |-> Idle]
    /\ \E ext \in Exts, human \in BOOLEAN, temp \in BOOLEAN :
           \E ser \in (IF temp THEN {<<>>} ELSE Contents(ext)) :
               cf = [opened |-> TRUE, ext |-> ext, human |-> human,
                     temp |-> temp, ser |-> ser]

\* A call on the Configer: the call record holds as arg what was passed and
\* as pre the file as the call found it.
ConfCall(name, arg, c, r) ==
    /\ cf' = c
    /\ ret' = r.ret
    /\ op' = [Call(name, "", "", arg, cf) EXCEPT !.raised = r.raised]
    /\ meth' = name
    /\ UNCHANGED <<dbs, accepted, env, calls>>

ConfigerPut(data, human) ==
    /\ ConfCall("Configer.put", <<data, human>>,
                PutOf(cf, data, Human(human, cf)).cf,
                PutOf(cf, data, Human(human, cf)))

ConfigerGet(human) ==
    /\ ConfCall("Configer.get", <<human>>, cf, GetOf(cf, Human(human, cf)))

\* ConfigerDoer.enter: reopen unless opened.
ConfigerDoerEnter ==
    /\ ConfCall("ConfigerDoer.enter", <<>>, [cf EXCEPT !.opened = TRUE],
                [ret |-> None, raised |-> FALSE])

\* ConfigerDoer.exit: close(clear=self.configer.temp); clearing removes the
\* file.
ConfigerDoerExit ==
    /\ ConfCall("ConfigerDoer.exit", <<>>,
                [cf EXCEPT !.opened = FALSE,
                           !.ser = IF cf.temp THEN <<>> ELSE @],
                [ret |-> None, raised |-> FALSE])

NextConf ==
    \/ \E data \in Datas, human \in HumanArgs : ConfigerPut(data, human)
    \/ \E human \in HumanArgs : ConfigerGet(human)
    \/ ConfigerDoerEnter
    \/ ConfigerDoerExit

SpecConf == InitConf /\ [][NextConf]_vars

\* C33: a put on an opened file whose extension is none of .json, .mgpk and
\* .cbor raises IOError and leaves in the file what it held; a put or a get
\* on a file that is not opened raises ValueError and leaves the file as it
\* was.
C33_PutErrorsKeepFile ==
    /\ (op.name = "Configer.put" /\ op.pre.opened /\ op.pre.ext \notin ValidExts)
       => (op.raised /\ ret = IoError /\ cf.ser = op.pre.ser)
    /\ (op.name \in {"Configer.put", "Configer.get"} /\ ~op.pre.opened)
       => (op.raised /\ ret = ValueError /\ cf = op.pre)

\* C34: a get on an opened file whose extension is none of .json, .mgpk and
\* .cbor raises IOError, whatever the file holds, an empty file included.
C34_GetUnknownExtRaises ==
    (op.name = "Configer.get" /\ op.pre.opened /\ op.pre.ext \notin ValidExts)
    => (op.raised /\ ret = IoError)

====
